---- MODULE Spec2Model ----
(***************************************************************************)
(* Model of the /analyze handler of TensileTestAnalyzer/app.py.            *)
(*                                                                         *)
(* Numbers.  The handler computes in IEEE-754 doubles.  A value is         *)
(* modelled as a pair <<n, d>>: d > 0 is the exact rational n/d in lowest  *)
(* terms, <<1, 0>> is +inf, <<-1, 0>> is -inf and <<0, 0>> is NaN.         *)
(* Operations on finite values are exact (rounding is not modelled); the   *)
(* operations on non-finite values follow IEEE-754 (inf - inf, 0 * inf     *)
(* and 0 / 0 are NaN, every ordered comparison with NaN is false).         *)
(*                                                                         *)
(* Indices are 0-based as in the source: At(s, i) is s[i] of the source.   *)
(***************************************************************************)
EXTENDS Integers, Sequences, FiniteSets

\* ------------------------------------------------------------------ bounds
\* Longest uploaded file (rows) of the free-form input family.
MaxLen == 3
\* Longest uploaded file (rows) of the monotone-displacement input family.
MaxLong == 6

\* ------------------------------------------------------- extended rationals
Abs(n) == IF n < 0 THEN -n ELSE n

Sign(n) == IF n > 0 THEN 1 ELSE IF n < 0 THEN -1 ELSE 0

RECURSIVE GCD(_, _)
GCD(a, b) == IF b = 0 THEN a ELSE GCD(b, a % b)

\* The value n/d in canonical form (d = 0 gives +inf, -inf or NaN by sign of n).
Norm(n, d) ==
    IF d = 0 THEN <<Sign(n), 0>>
    ELSE LET g == GCD(Abs(n), Abs(d))
             s == Sign(d)
         IN  <<(s * n) \div g, (s * d) \div g>>

Whole(n) == <<n, 1>>

NaN == <<0, 0>>

PosInf == <<1, 0>>

NegInf == <<-1, 0>>

IsNaN(x) == x = NaN

IsFinite(x) == x[2] > 0

Neg(x) == <<-x[1], x[2]>>

Mul(x, y) == Norm(x[1] * y[1], x[2] * y[2])

Add(x, y) ==
    IF x[2] = 0 /\ y[2] = 0
    THEN IF x = y THEN x ELSE NaN
    ELSE Norm(x[1] * y[2] + y[1] * x[2], x[2] * y[2])

Sub(x, y) == Add(x, Neg(y))

\* x / y for finite x and y, where a zero y is +0.0 (zsign = 1) or -0.0
\* (zsign = -1).
DivZ(x, y, zsign) ==
    IF y[1] = 0 THEN <<Sign(x[1]) * zsign, 0>>
    ELSE Norm(x[1] * y[2], x[2] * y[1])

Div(x, y) == DivZ(x, y, 1)

Lt(x, y) ==
    /\ ~IsNaN(x)
    /\ ~IsNaN(y)
    /\ IF IsFinite(x) /\ IsFinite(y) THEN x[1] * y[2] < y[1] * x[2]
       ELSE IF ~IsFinite(x) THEN x = NegInf /\ y # NegInf
       ELSE y = PosInf

Gt(x, y) == Lt(y, x)

Le(x, y) == ~IsNaN(x) /\ ~IsNaN(y) /\ ~Lt(y, x)

Ge(x, y) == Le(y, x)

\* ------------------------------------------------------------ sequences
At(s, i) == s[i + 1]

\* Python's s[i] for i in -len(s) .. len(s)-1 (a negative i counts from the end).
PyAt(s, i) == IF i < 0 THEN s[Len(s) + i + 1] ELSE s[i + 1]

Indices(s) == 0 .. (Len(s) - 1)

Min2(a, b) == IF a < b THEN a ELSE b

Max2(a, b) == IF a > b THEN a ELSE b

Prefix(s, k) == SubSeq(s, 1, Min2(k, Len(s)))

\* A cell of a column is <<v>> for the number v, or <<>> for an entry that
\* pd.to_numeric coerces to NaN; dropna() keeps the numbers, in order.
RECURSIVE DropNa(_)
DropNa(col) ==
    IF col = <<>> THEN <<>>
    ELSE Head(col) \o DropNa(Tail(col))

Column(rows, k) == [i \in 1 .. Len(rows) |-> rows[i][k]]

\* np.max over a finite, NaN-free or NaN-carrying array: NaN if any entry
\* is NaN, else the largest entry.
RECURSIVE NpMax(_)
NpMax(s) ==
    IF Len(s) = 1 THEN s[1]
    ELSE LET m == NpMax(Tail(s))
         IN  IF IsNaN(s[1]) \/ IsNaN(m) THEN NaN
             ELSE IF Lt(s[1], m) THEN m ELSE s[1]

\* np.argmax: the first NaN if there is one, else the first largest entry.
NpArgmax(s) ==
    IF \E i \in Indices(s) : IsNaN(At(s, i))
    THEN CHOOSE i \in Indices(s) :
            IsNaN(At(s, i)) /\ \A j \in 0 .. (i - 1) : ~IsNaN(At(s, j))
    ELSE CHOOSE i \in Indices(s) :
            /\ \A j \in Indices(s) : Le(At(s, j), At(s, i))
            /\ \A j \in 0 .. (i - 1) : Lt(At(s, j), At(s, i))

\* np.argmin: the first NaN if there is one, else the first smallest entry.
NpArgmin(s) ==
    IF \E i \in Indices(s) : IsNaN(At(s, i))
    THEN CHOOSE i \in Indices(s) :
            IsNaN(At(s, i)) /\ \A j \in 0 .. (i - 1) : ~IsNaN(At(s, j))
    ELSE CHOOSE i \in Indices(s) :
            /\ \A j \in Indices(s) : Ge(At(s, j), At(s, i))
            /\ \A j \in 0 .. (i - 1) : Gt(At(s, j), At(s, i))

\* ------------------------------------------------------------ np.gradient
\* Sign of a zero product p * q in IEEE arithmetic, where a zero factor is
\* +0.0 (every zero spacing comes from x - x or from h + (-h), both +0.0).
ZSign(p, q) == (IF p[1] < 0 THEN -1 ELSE 1) * (IF q[1] < 0 THEN -1 ELSE 1)

Diffx(x) == [i \in 1 .. (Len(x) - 1) |-> Sub(x[i + 1], x[i])]

Uniform(dx) == \A i \in 1 .. Len(dx) : dx[i] = dx[1]

\* Interior point, evenly spaced samples: (f[i+1] - f[i-1]) / (2. * h).
InteriorUniform(f, h, i) ==
    DivZ(Sub(At(f, i + 1), At(f, i - 1)), Mul(Whole(2), h), 1)

\* Interior point, unevenly spaced samples (second-order formula).
InteriorNonUniform(f, dx, i) ==
    LET dx1 == dx[i]
        dx2 == dx[i + 1]
        sum == Add(dx1, dx2)
        a == DivZ(Neg(dx2), Mul(dx1, sum), ZSign(dx1, sum))
        b == DivZ(Sub(dx2, dx1), Mul(dx1, dx2), ZSign(dx1, dx2))
        c == DivZ(dx1, Mul(dx2, sum), ZSign(dx2, sum))
    IN  Add(Add(Mul(a, At(f, i - 1)), Mul(b, At(f, i))), Mul(c, At(f, i + 1)))

\* np.gradient(f, x) with edge_order 1, for len(f) >= 2.
NpGradient(f, x) ==
    LET n == Len(f)
        dx == Diffx(x)
    IN  [k \in 1 .. n |->
            LET i == k - 1
            IN  IF i = 0 THEN DivZ(Sub(At(f, 1), At(f, 0)), dx[1], 1)
                ELSE IF i = n - 1
                THEN DivZ(Sub(At(f, n - 1), At(f, n - 2)), dx[n - 1], 1)
                ELSE IF Uniform(dx) THEN InteriorUniform(f, dx[1], i)
                ELSE InteriorNonUniform(f, dx, i)]

\* np.gradient raises ValueError when the array has fewer than
\* edge_order + 1 = 2 elements.
GradientRaises(f) == Len(f) < 2

\* try: np.gradient(stress_mpa, strain)  except ValueError: np.zeros_like
TangentModulus(f, x) ==
    IF GradientRaises(f) THEN [k \in 1 .. Len(f) |-> Whole(0)]
    ELSE NpGradient(f, x)

\* --------------------------------------------------- scalar modulus E
RECURSIVE Insert(_, _)
Insert(v, s) ==
    IF s = <<>> THEN <<v>>
    ELSE IF Le(v, Head(s)) THEN <<v>> \o s
    ELSE <<Head(s)>> \o Insert(v, Tail(s))

\* Ascending order of a NaN-free array.
RECURSIVE Sorted(_)
Sorted(s) == IF s = <<>> THEN <<>> ELSE Insert(Head(s), Sorted(Tail(s)))

RECURSIVE Select(_, _)
Select(s, keep) ==
    IF s = <<>> THEN <<>>
    ELSE IF keep[1] THEN <<Head(s)>> \o Select(Tail(s), Tail(keep))
    ELSE Select(Tail(s), Tail(keep))

RECURSIVE Sum(_)
Sum(s) == IF s = <<>> THEN Whole(0) ELSE Add(Head(s), Sum(Tail(s)))

\* np.mean: the mean of an empty array is NaN (a warning, no exception).
NpMean(s) == Mul(Sum(s), <<1, Len(s)>>)

\* np.percentile(v, 90), linear interpolation, for a non-empty v: the values
\* it can return.  The virtual index is 0.9 * (m - 1); the result interpolates
\* the two order statistics around it.  With a NaN in v the result is NaN.
\* When an order statistic it interpolates is infinite the result depends on
\* the numpy release (a + (b - a) * t in some, b - (b - a) * (1 - t) or
\* a * (1 - t) + b * t in others): NaN or that infinity.
Percentile90(v) ==
    LET m == Len(v)
        pos == 9 * (m - 1)
        lo == pos \div 10
        hi == Min2(lo + 1, m - 1)
        gamma == <<pos % 10, 10>>
        srt == Sorted(v)
        a == At(srt, lo)
        b == At(srt, hi)
    IN  IF \E i \in 1 .. m : IsNaN(v[i]) THEN {NaN}
        ELSE IF IsFinite(a) /\ IsFinite(b)
        THEN {Add(a, Mul(Sub(b, a), Norm(gamma[1], gamma[2])))}
        ELSE {NaN, IF IsFinite(b) THEN a ELSE b}

\* elastic_mask = (stress_mpa > 0.05 * max_stress_val)
\*              & (strain < 0.5 * max_strain_val)
ElasticMask(stress, strain) ==
    [i \in 1 .. Len(stress) |->
        /\ Gt(stress[i], Mul(<<1, 20>>, NpMax(stress)))
        /\ Lt(strain[i], Mul(<<1, 2>>, NpMax(strain)))]

AnyMask(mask) == \E i \in 1 .. Len(mask) : mask[i]

\* E on the non-empty-mask branch, for the threshold thr.
MeanAbove(valid, thr) ==
    NpMean(Select(valid, [i \in 1 .. Len(valid) |-> Ge(valid[i], thr)]))

\* The window of the fallback: max(5, int(len(strain) * 0.2)).
FallbackWindow(n) == Max2(5, (n * 2) \div 10)

\* Variant: the window is used from 5 samples on.
FallbackUsesDataFromFive(n) == n >= 5

\* The fallback takes the max of the window only when len(strain) > 5.
FallbackUsesData(n) == n > 5

FallbackE(tangent) ==
    IF FallbackUsesData(Len(tangent))
    THEN NpMax(Prefix(tangent, FallbackWindow(Len(tangent))))
    ELSE Whole(1)

\* The values E can take for a non-empty series.
EstimateE(stress, strain, tangent) ==
    LET mask == ElasticMask(stress, strain)
        valid == Select(tangent, mask)
    IN  IF AnyMask(mask)
        THEN {MeanAbove(valid, thr) : thr \in Percentile90(valid)}
        ELSE {FallbackE(tangent)}

\* ------------------------------------------------------------ yield
OffsetStrain == <<1, 500>>

\* offset_stress = E * (strain - 0.002)
OffsetStress(e, strain_i) == Mul(e, Sub(strain_i, OffsetStrain))

Crossing(e, stress, strain, i) ==
    /\ Gt(At(strain, i), OffsetStrain)
    /\ Lt(At(stress, i), OffsetStress(e, At(strain, i)))

\* The index assigned on the first crossing sample i.
YieldFrom(i) == i - 1

\* The scan of the samples: <<>> is None, <<y>> the yield index y.
YieldIndex(e, stress, strain) ==
    IF \E i \in Indices(stress) : Crossing(e, stress, strain, i)
    THEN LET first == CHOOSE i \in Indices(stress) :
                        /\ Crossing(e, stress, strain, i)
                        /\ \A j \in 0 .. (i - 1) : ~Crossing(e, stress, strain, j)
         IN  <<YieldFrom(first)>>
    ELSE <<>>

Point(stress, strain, youngs, i) ==
    [strain |-> PyAt(strain, i), stress |-> PyAt(stress, i),
     slope |-> PyAt(youngs, i)]

YieldPoint(yidx, stress, strain, youngs) ==
    IF yidx = <<>> THEN <<>> ELSE <<Point(stress, strain, youngs, yidx[1])>>

\* Variant: the test is made on the truth value of the index ("if
\* yield_index:"), which is false for index 0 too.
HasOffsetLineByIndex(yidx, ypoint) == yidx # <<>> /\ yidx[1] # 0

\* "if yield_point:" a non-empty dict is true, None is false.
HasOffsetLine(yidx, ypoint) == ypoint # <<>>

OffsetLine(yidx, ypoint) ==
    IF HasOffsetLine(yidx, ypoint)
    THEN <<[x |-> OffsetStrain, y |-> Whole(0)],
           [x |-> ypoint[1].strain, y |-> ypoint[1].stress]>>
    ELSE <<>>

YieldStrength(ypoint) == IF ypoint # <<>> THEN ypoint[1].stress ELSE Whole(0)

\* ------------------------------------------------------------ fracture
\* Significant drop: min_slope_val < -0.05 * E
SignificantDrop(min_slope_val, e) == Lt(min_slope_val, Mul(<<-1, 20>>, e))

\* Variant: the point before the drop, not clamped to the peak.
BeforeDropUnclamped(peak_idx, min_slope_idx) == min_slope_idx - 1

\* Variant: the point of the steepest drop itself.
AtDrop(peak_idx, min_slope_idx) == Max2(peak_idx, min_slope_idx)

\* Fracture is the point before the drop.
BeforeDrop(peak_idx, min_slope_idx) == Max2(peak_idx, min_slope_idx - 1)

FractureIdx(stress, tangent, e) ==
    LET peak_idx == NpArgmax(stress)
        post_peak_tangent == SubSeq(tangent, peak_idx + 1, Len(tangent))
    IN  IF Len(post_peak_tangent) > 1
        THEN LET min_slope_idx_local == NpArgmin(post_peak_tangent)
                 min_slope_val == At(post_peak_tangent, min_slope_idx_local)
                 min_slope_idx == peak_idx + min_slope_idx_local
             IN  IF SignificantDrop(min_slope_val, e)
                 THEN BeforeDrop(peak_idx, min_slope_idx)
                 ELSE peak_idx
        ELSE peak_idx

\* ------------------------------------------------------------ inputs
\* Form values of "area" (m^2) and "length" (m), after float().
AreaValues == {<<-1, 1000>>, Whole(0), <<1, 1000>>}

GaugeValues == {Whole(0), <<1, 2>>}

\* Displacement (mm) and load (N) readings of the free-form files.
DispValues == {0, 1, 3}

LoadValues == {-1, 0, 1, 3}

Cells(values) == {<<>>} \cup {<<Whole(v)>> : v \in values}

FreeRows ==
    UNION {[1 .. k -> Cells(DispValues) \X Cells(LoadValues)] : k \in 0 .. MaxLen}

\* Longer files: per row the crosshead advances by 1 or 2 mm and the load
\* reading is 0 or 1 N (a 2 mm advance always under load).
LongSteps == {<<1, 0>>, <<1, 1>>, <<2, 1>>}

RECURSIVE Travel(_, _)
Travel(steps, i) == IF i = 0 THEN 0 ELSE steps[i][1] + Travel(steps, i - 1)

LongRows ==
    UNION {{[i \in 1 .. k |-> <<<<Whole(Travel(c, i) - 1)>>, <<Whole(c[i][2])>>>>] :
                c \in [1 .. k -> LongSteps]} : k \in (MaxLen + 1) .. MaxLong}

\* An uploaded file: whether a displacement column and a load column are
\* detected in its header, and its rows (the cells of the two columns).  The
\* rows of a file without both columns are never read, and are left out.
Files ==
    {[disp_col |-> TRUE, load_col |-> TRUE, rows |-> r] : r \in FreeRows \cup LongRows}
    \cup {[disp_col |-> d, load_col |-> l, rows |-> <<>>] :
                d \in BOOLEAN, l \in {FALSE}}
    \cup {[disp_col |-> FALSE, load_col |-> TRUE, rows |-> <<>>]}

\* ------------------------------------------------------------ state
VARIABLES pc, steps, outcome, form, displacement, load, stress_mpa, strain,
          youngs_modulus_arr, tangent_modulus_arr, E, yield_index,
          yield_point, offset_line, fracture_idx, yield_strength

vars == <<pc, steps, outcome, form, displacement, load, stress_mpa, strain,
          youngs_modulus_arr, tangent_modulus_arr, E, yield_index,
          yield_point, offset_line, fracture_idx, yield_strength>>

inputVars == <<displacement, load>>

seriesVars == <<stress_mpa, strain, youngs_modulus_arr>>

modulusVars == <<tangent_modulus_arr, E>>

yieldVars == <<yield_index, yield_point, offset_line>>

resultVars == <<fracture_idx, yield_strength>>

Init ==
    /\ pc = "start"
    /\ steps = {}
    /\ outcome = "pending"
    /\ form = <<>>
    /\ displacement = <<>>
    /\ load = <<>>
    /\ stress_mpa = <<>>
    /\ strain = <<>>
    /\ youngs_modulus_arr = <<>>
    /\ tangent_modulus_arr = <<>>
    /\ E = <<>>
    /\ yield_index = <<>>
    /\ yield_point = <<>>
    /\ offset_line = <<>>
    /\ fracture_idx = <<>>
    /\ yield_strength = <<>>

\* The handler returns: an error response, or the result.
Return(kind) == pc' = "done" /\ outcome' = kind

Goto(label) == pc' = label /\ outcome' = outcome

\* file = request.files.get("file"); if not file: return 400
CheckFile ==
    /\ pc = "start"
    /\ steps' = steps \cup {"check_file"}
    /\ \E present \in BOOLEAN :
            IF present THEN Goto("params") ELSE Return("no_file")
    /\ UNCHANGED <<form, inputVars, seriesVars, modulusVars, yieldVars, resultVars>>

\* Variant: rejected only when both are non-positive.
InvalidParamsBoth(area, gauge_length) ==
    Le(area, Whole(0)) /\ Le(gauge_length, Whole(0))

\* if area <= 0 or gauge_length <= 0
InvalidParams(area, gauge_length) ==
    Le(area, Whole(0)) \/ Le(gauge_length, Whole(0))

\* area = float(...); gauge_length = float(...); the positivity check.
ReadParams ==
    /\ pc = "params"
    /\ steps' = steps \cup {"params"}
    /\ \E area \in AreaValues, gauge_length \in GaugeValues :
            /\ form' = <<area, gauge_length>>
            /\ IF InvalidParams(area, gauge_length)
               THEN Return("invalid_params")
               ELSE Goto("read")
    /\ UNCHANGED <<inputVars, seriesVars, modulusVars, yieldVars, resultVars>>

\* float() raises ValueError on a form value that is no number.
BadParams ==
    /\ pc = "params"
    /\ steps' = steps \cup {"params"}
    /\ Return("exception")
    /\ UNCHANGED <<form, inputVars, seriesVars, modulusVars, yieldVars, resultVars>>

\* min_len = min(len(displacement), len(load)) and the two truncations.
Aligned(col, other) == Prefix(col, Min2(Len(col), Len(other)))

\* file.read(), pd.read_csv, the column detection, to_numeric + dropna and
\* the truncation to the common length.
ReadCsv ==
    /\ pc = "read"
    /\ steps' = steps \cup {"read"}
    /\ \E file \in Files :
            IF file.disp_col /\ file.load_col
            THEN LET d == DropNa(Column(file.rows, 1))
                     l == DropNa(Column(file.rows, 2))
                 IN  /\ displacement' = Aligned(d, l)
                     /\ load' = Aligned(l, d)
                     /\ Goto("convert")
            ELSE /\ Return("no_columns")
                 /\ UNCHANGED inputVars
    /\ UNCHANGED <<form, seriesVars, modulusVars, yieldVars, resultVars>>

\* stress_mpa = load / area / 1e6
StressMpa(load_i, area) == Div(Div(load_i, area), Whole(1000000))

\* strain = (displacement / 1000) / gauge_length
Strain(disp_i, gauge_length) == Div(Div(disp_i, Whole(1000)), gauge_length)

\* np.where(strain != 0, stress_mpa / strain, 0.0)
Youngs(stress_i, strain_i) ==
    IF strain_i # Whole(0) THEN Div(stress_i, strain_i) ELSE Whole(0)

\* file.read().decode or pd.read_csv raises (undecodable or empty content).
BadCsv ==
    /\ pc = "read"
    /\ steps' = steps \cup {"read"}
    /\ Return("exception")
    /\ UNCHANGED <<form, inputVars, seriesVars, modulusVars, yieldVars, resultVars>>

Convert ==
    /\ pc = "convert"
    /\ steps' = steps \cup {"convert"}
    /\ LET s == [i \in 1 .. Len(load) |-> StressMpa(load[i], form[1])]
           e == [i \in 1 .. Len(load) |-> Strain(displacement[i], form[2])]
       IN  /\ stress_mpa' = s
           /\ strain' = e
           /\ youngs_modulus_arr' = [i \in 1 .. Len(load) |-> Youngs(s[i], e[i])]
    /\ Goto("modulus")
    /\ UNCHANGED <<form, inputVars, modulusVars, yieldVars, resultVars>>

\* The tangent modulus and E.  np.max of an empty array raises ValueError,
\* which the handler turns into the 500 response.
Modulus ==
    /\ pc = "modulus"
    /\ steps' = steps \cup {"modulus"}
    /\ tangent_modulus_arr' = TangentModulus(stress_mpa, strain)
    /\ IF stress_mpa = <<>>
       THEN Return("exception") /\ E' = E
       ELSE /\ \E e \in EstimateE(stress_mpa, strain, tangent_modulus_arr') :
                    E' = <<e>>
            /\ Goto("yield")
    /\ UNCHANGED <<form, inputVars, seriesVars, yieldVars, resultVars>>

LocateYield ==
    /\ pc = "yield"
    /\ steps' = steps \cup {"yield"}
    /\ yield_index' = YieldIndex(E[1], stress_mpa, strain)
    /\ yield_point' = YieldPoint(yield_index', stress_mpa, strain, youngs_modulus_arr)
    /\ offset_line' = OffsetLine(yield_index', yield_point')
    /\ Goto("fracture")
    /\ UNCHANGED <<form, inputVars, seriesVars, modulusVars, resultVars>>

\* The fracture point, the metrics and the JSON result.
LocateFracture ==
    /\ pc = "fracture"
    /\ steps' = steps \cup {"fracture"}
    /\ fracture_idx' = <<FractureIdx(stress_mpa, tangent_modulus_arr, E[1])>>
    /\ yield_strength' = <<YieldStrength(yield_point)>>
    /\ Return("ok")
    /\ UNCHANGED <<form, inputVars, seriesVars, modulusVars, yieldVars>>

Next ==
    \/ CheckFile
    \/ ReadParams
    \/ BadParams
    \/ ReadCsv
    \/ BadCsv
    \/ Convert
    \/ Modulus
    \/ LocateYield
    \/ LocateFracture

Spec == Init /\ [][Next]_vars

\* ------------------------------------------------------------ claims
Succeeded == pc = "done" /\ outcome = "ok"

Samples == Len(stress_mpa)

Zero == Whole(0)

\* p is the first index of the global maximum of stress.
FirstGlobalMax(p) ==
    /\ p \in Indices(stress_mpa)
    /\ \A j \in Indices(stress_mpa) : Le(At(stress_mpa, j), At(stress_mpa, p))
    /\ \A j \in 0 .. (p - 1) : Lt(At(stress_mpa, j), At(stress_mpa, p))

\* C1: on every successful analysis of a non-empty series the fracture index
\* lies between the first index of the global stress maximum and the last
\* index.
C1_FractureWithinRange ==
    Succeeded =>
        \E p \in Indices(stress_mpa) :
            /\ FirstGlobalMax(p)
            /\ p <= fracture_idx[1]
            /\ fracture_idx[1] <= Samples - 1

\* A significant drop was found two samples after the peak: the fracture
\* index is past the peak.
C1_Witness ==
    /\ Succeeded
    /\ \E p \in Indices(stress_mpa) : FirstGlobalMax(p) /\ fracture_idx[1] > p
    /\ fracture_idx[1] < Samples - 1

\* The sample at index i is on or above the offset line.
OnOrAbove(i) ==
    Ge(PyAt(stress_mpa, i), Mul(E[1], Sub(PyAt(strain, i), <<1, 500>>)))

\* The sample at index i is strictly below the offset line.
Below(i) ==
    Lt(PyAt(stress_mpa, i), Mul(E[1], Sub(PyAt(strain, i), <<1, 500>>)))

\* C2: whenever a yield index y is reported, sample y is on or above the
\* offset line and sample y+1 (when it exists) is strictly below it.  Stated
\* here for a y that is an index of the series, so that a violation does not
\* rest on the index -1 of C3.
C2_CrossingBracket ==
    (Succeeded /\ yield_index # <<>> /\ yield_index[1] >= 0) =>
        /\ OnOrAbove(yield_index[1])
        /\ (yield_index[1] + 1 <= Samples - 1 => Below(yield_index[1] + 1))

\* The crossing condition holds at index 0.
CrossesAtZero ==
    /\ Samples >= 1
    /\ Gt(At(strain, 0), <<1, 500>>)
    /\ Below(0)

\* C3: when the crossing condition is first satisfied at index 0, the
\* reported yield index is absent or an index of the series, and the yield
\* point is not read at index -1.
C3_YieldIndexInRange ==
    (Succeeded /\ CrossesAtZero) =>
        \/ yield_index = <<>> /\ yield_point = <<>>
        \/ yield_index # <<>> /\ yield_index[1] \in Indices(stress_mpa)

NothingComputed ==
    /\ displacement = <<>> /\ load = <<>>
    /\ stress_mpa = <<>> /\ strain = <<>> /\ youngs_modulus_arr = <<>>
    /\ tangent_modulus_arr = <<>> /\ E = <<>>
    /\ yield_index = <<>> /\ yield_point = <<>> /\ offset_line = <<>>
    /\ fracture_idx = <<>> /\ yield_strength = <<>>

NonPositiveGeometry ==
    form # <<>> /\ (form[1][1] <= 0 \/ form[2][1] <= 0)

\* C5: once area <= 0 or gauge_length <= 0 has been read from the form, the
\* handler has ended in the parameter error, has read no file content and
\* has computed nothing.
C5_InvalidParamsRejected ==
    NonPositiveGeometry =>
        /\ pc = "done"
        /\ outcome = "invalid_params"
        /\ steps = {"check_file", "params"}
        /\ NothingComputed

C5_Witness == NonPositiveGeometry /\ pc = "done" /\ form[1][1] > 0

\* load = k * displacement for one k > 0, displacement strictly increasing.
LinearInput ==
    /\ Len(load) >= 2
    /\ \A i \in 1 .. (Len(load) - 1) : Lt(displacement[i], displacement[i + 1])
    /\ \E i \in 1 .. Len(load) :
            /\ displacement[i] # Zero
            /\ Gt(Div(load[i], displacement[i]), Zero)
            /\ \A j \in 1 .. Len(load) :
                    load[j] = Mul(Div(load[i], displacement[i]), displacement[j])

\* C6: a perfectly linear input with positive slope has no yield point.
C6_LinearHasNoYield ==
    (Succeeded /\ LinearInput) => yield_index = <<>>

\* C7: the yield index, the yield point and the offset line are present
\* together or absent together; the offset line runs from (0.002, 0) to the
\* sample at the yield index; the yield strength is the stress at the yield
\* index, or 0 without a yield.
C7_YieldOutputsAgree ==
    Succeeded =>
        IF yield_index = <<>>
        THEN /\ yield_point = <<>>
             /\ offset_line = <<>>
             /\ yield_strength = <<Zero>>
        ELSE /\ Len(yield_point) = 1
             /\ yield_point[1].strain = PyAt(strain, yield_index[1])
             /\ yield_point[1].stress = PyAt(stress_mpa, yield_index[1])
             /\ Len(offset_line) = 2
             /\ offset_line[1] = [x |-> <<1, 500>>, y |-> Zero]
             /\ offset_line[2] = [x |-> PyAt(strain, yield_index[1]),
                                  y |-> PyAt(stress_mpa, yield_index[1])]
             /\ yield_strength = <<PyAt(stress_mpa, yield_index[1])>>

\* A yield was found at the first sample of the series.
C7_Witness == Succeeded /\ yield_index = <<0>> /\ Samples >= 2

\* Stress rises strictly up to the last but one sample, and the last sample
\* drops to within 5% of the peak; E is positive.
Brittle ==
    /\ Samples >= 2
    /\ \A i \in 0 .. (Samples - 3) : Lt(At(stress_mpa, i), At(stress_mpa, i + 1))
    /\ Gt(At(stress_mpa, Samples - 2), Zero)
    /\ Ge(At(stress_mpa, Samples - 1), Zero)
    /\ Le(At(stress_mpa, Samples - 1), Mul(<<1, 20>>, At(stress_mpa, Samples - 2)))
    /\ Gt(E[1], Zero)

\* C8: in the brittle case the fracture index is the peak index, the sample
\* just before the drop.
C8_BrittleFractureAtPeak ==
    (Succeeded /\ Brittle) => fracture_idx = <<Samples - 2>>

\* A brittle series of three or more samples, sampled at increasing strain,
\* whose last tangent modulus is a significant drop.
C8_Witness ==
    /\ Succeeded
    /\ Brittle
    /\ Samples >= 3
    /\ \A i \in 0 .. (Samples - 2) : Lt(At(strain, i), At(strain, i + 1))
    /\ Lt(At(tangent_modulus_arr, Samples - 1), Mul(<<-1, 20>>, E[1]))

\* The elastic-candidate region is empty.
EmptyRegion ==
    \A i \in 1 .. Samples :
        ~(/\ Gt(stress_mpa[i], Mul(<<1, 20>>, NpMax(stress_mpa)))
          /\ Lt(strain[i], Mul(<<1, 2>>, NpMax(strain))))

\* The maximum tangent modulus of the first max(5, floor(0.2 * length))
\* samples.
WindowMax == NpMax(Prefix(tangent_modulus_arr, Max2(5, Samples \div 5)))

ModulusDone == "modulus" \in steps /\ Samples >= 1

DegenerateStrain == Cardinality({strain[i] : i \in 1 .. Samples}) < 2

\* C10: with fewer than 2 distinct strain values the tangent-modulus series
\* is all zero and as long as the input.
C10_DegenerateGradientIsZero ==
    ("modulus" \in steps /\ DegenerateStrain) =>
        /\ Len(tangent_modulus_arr) = Samples
        /\ \A i \in 1 .. Samples : tangent_modulus_arr[i] = Zero

====
